---- MODULE Spec2Model ----
(***************************************************************************)
(* Model of tools/conversion/genome_manipulation.py: the instruction-set   *)
(* table loader (GenomeManipulator.read_instruction_set_file), the two     *)
(* converters (convert_chars_to_names, convert_names_to_chars) and the     *)
(* file helpers (write_to_file, split_name_file).                          *)
(*                                                                         *)
(* A Python str is a sequence of one-character strings; a text file is the *)
(* sequence of its lines (each without its line terminator).               *)
(***************************************************************************)
EXTENDS Integers, Sequences, FiniteSets, TLC

VARIABLES
    file,            \* the instruction-set file: a sequence of lines
    pc,              \* position in read_instruction_set_file
    lineno,          \* the next line `for line in fp` will yield
    cols,            \* index_col_idx, id_col_idx, char_col_idx, name_col_idx
    index_map,       \* self.index_map
    id_map,          \* self.id_map
    char_map,        \* self.char_map
    name_map,        \* self.name_map
    loaded,          \* the Instruction objects constructed and echoed so far
    exc,             \* the exception that ended the load, or "none"
    call             \* the last call made on the loaded manipulator

vars == <<file, pc, lineno, cols, index_map, id_map, char_map, name_map, loaded, exc, call>>

----------------------------------------------------------------------------
(* Bounds of the model *)

\* the longest instruction-set file, in lines
MaxLines == 3
\* the longest symbol string given to convert_chars_to_names
MaxStrLen == 3
\* the longest name list given to convert_names_to_chars
MaxListLen == 3

----------------------------------------------------------------------------
(* Python str primitives *)

NL == "\n"
Whitespace == {" ", "\t", NL}
Digits == {"0", "1", "2", "3", "4", "5", "6", "7", "8", "9"}

\* str.replace(old, '') for a one-character old
replace(s, old) == SelectSeq(s, LAMBDA c : c # old)

\* str.split(): split on runs of whitespace, no empty tokens
RECURSIVE split_ws(_, _, _)
split_ws(s, i, cur) ==
    IF i > Len(s)
    THEN IF cur = <<>> THEN <<>> ELSE <<cur>>
    ELSE IF s[i] \in Whitespace
         THEN (IF cur = <<>> THEN <<>> ELSE <<cur>>) \o split_ws(s, i + 1, <<>>)
         ELSE split_ws(s, i + 1, Append(cur, s[i]))

split(s) == split_ws(s, 1, <<>>)

\* str.split(delim): every delimiter separates, empty pieces are kept
RECURSIVE split_on(_, _, _, _)
split_on(s, delim, i, cur) ==
    IF i > Len(s)
    THEN <<cur>>
    ELSE IF s[i] = delim
         THEN <<cur>> \o split_on(s, delim, i + 1, <<>>)
         ELSE split_on(s, delim, i + 1, Append(cur, s[i]))

\* str.strip(): drop leading and trailing whitespace
RECURSIVE lstrip(_)
lstrip(s) == IF s # <<>> /\ Head(s) \in Whitespace THEN lstrip(Tail(s)) ELSE s

RECURSIVE rstrip(_)
rstrip(s) ==
    IF s # <<>> /\ s[Len(s)] \in Whitespace
    THEN rstrip(SubSeq(s, 1, Len(s) - 1))
    ELSE s

strip(s) == rstrip(lstrip(s))

\* str.isdigit(): non-empty and every character a digit
isdigit(s) == s # <<>> /\ \A i \in 1..Len(s) : s[i] \in Digits

DigitVal(c) ==
    CASE c = "0" -> 0 [] c = "1" -> 1 [] c = "2" -> 2 [] c = "3" -> 3
      [] c = "4" -> 4 [] c = "5" -> 5 [] c = "6" -> 6 [] c = "7" -> 7
      [] c = "8" -> 8 [] c = "9" -> 9

RECURSIVE DecimalVal(_)
DecimalVal(s) ==
    IF s = <<>> THEN 0
    ELSE 10 * DecimalVal(SubSeq(s, 1, Len(s) - 1)) + DigitVal(s[Len(s)])

\* int(s) of a whitespace-free token over the characters of the inputs below:
\* an optional sign and decimal digits; anything else raises ValueError
int_ok(s) ==
    \/ isdigit(s)
    \/ Len(s) > 1 /\ s[1] \in {"-", "+"} /\ isdigit(Tail(s))

int(s) ==
    IF isdigit(s) THEN DecimalVal(s)
    ELSE IF s[1] = "-" THEN 0 - DecimalVal(Tail(s))
    ELSE DecimalVal(Tail(s))

\* the column names the header loop compares against
Str_index == <<"i", "n", "d", "e", "x">>
Str_id    == <<"i", "d">>
Str_char  == <<"c", "h", "a", "r">>
Str_name  == <<"n", "a", "m", "e">>

----------------------------------------------------------------------------
(* class Instruction and the four mappings of GenomeManipulator *)

\* Instruction(_index, _id, _char, _name); oid is the identity of the Python
\* object (the number of the file line it was constructed from): two records
\* built from equal fields are still two objects
Instruction(oid, _index, _id, _char, _name) ==
    [index |-> _index, id |-> _id, char |-> _char, name |-> _name, oid |-> oid]

\* a dict: a function whose domain is its key set
EmptyDict == <<>>
\* d[k] = v
DictSet(d, k, v) == (k :> v) @@ d
Values(d) == {d[k] : k \in DOMAIN d}

\* the manipulator's four dicts after __init__
NewTable ==
    [index_map |-> EmptyDict, id_map |-> EmptyDict,
     char_map |-> EmptyDict, name_map |-> EmptyDict]

\* index_col_idx, id_col_idx, char_col_idx, name_col_idx as initialised
DefaultCols == [index |-> 0, id |-> 1, char |-> 2, name |-> 3]

\* the header loop recording 1-based positions
RECURSIVE header_loop_one_based(_, _, _)
header_loop_one_based(line_parts, i, c) ==
    IF i >= Len(line_parts) THEN c
    ELSE LET part == strip(line_parts[i + 1]) IN
         header_loop_one_based(line_parts, i + 1,
            IF part = Str_index THEN [c EXCEPT !.index = i + 1]
            ELSE IF part = Str_id THEN [c EXCEPT !.id = i + 1]
            ELSE IF part = Str_char THEN [c EXCEPT !.char = i + 1]
            ELSE IF part = Str_name THEN [c EXCEPT !.name = i + 1]
            ELSE c)

\* the header loop: for i in range(len(line_parts)), 0-based i
RECURSIVE header_loop(_, _, _)
header_loop(line_parts, i, c) ==
    IF i >= Len(line_parts) THEN c
    ELSE LET part == strip(line_parts[i + 1]) IN
         header_loop(line_parts, i + 1,
            IF part = Str_index THEN [c EXCEPT !.index = i]
            ELSE IF part = Str_id THEN [c EXCEPT !.id = i]
            ELSE IF part = Str_char THEN [c EXCEPT !.char = i]
            ELSE IF part = Str_name THEN [c EXCEPT !.name = i]
            ELSE c)

\* the test `line_parts[0].replace(',','').isdigit()`
no_header(line_parts) == isdigit(replace(line_parts[1], ","))

\* the column indices after the first line was examined
header_cols(line_parts) ==
    IF no_header(line_parts) THEN DefaultCols
    ELSE header_loop(line_parts, 0, DefaultCols)

\* the data loop without fp.seek(0): it always continues after the first line
first_data_line_no_seek(line_parts) == 2

\* the first line the data loop reads: fp.seek(0) rewinds to line 1 when no
\* header was detected, otherwise the loop continues after the header
first_data_line(line_parts) == IF no_header(line_parts) THEN 1 ELSE 2

\* the insertions without the one into id_map
insert_no_id(self, inst) ==
    [index_map |-> DictSet(self.index_map, inst.index, inst),
     id_map    |-> self.id_map,
     char_map  |-> DictSet(self.char_map, inst.char, inst),
     name_map  |-> DictSet(self.name_map, inst.name, inst)]

\* the four insertions of one loop iteration
insert(self, inst) ==
    [index_map |-> DictSet(self.index_map, inst.index, inst),
     id_map    |-> DictSet(self.id_map, inst.id, inst),
     char_map  |-> DictSet(self.char_map, inst.char, inst),
     name_map  |-> DictSet(self.name_map, inst.name, inst)]

\* one iteration of `for line in fp`: the exception it raises (or "none"),
\* the mappings it leaves and the objects it echoes with print(inst).
\* Subscripts and int() are evaluated in the order of the statements.
raises(e, self) == [exc |-> e, self |-> self, echo |-> <<>>]

\* the iteration with each key inserted as soon as its field is read: the
\* index mapping is written before the id is parsed
load_line_eager(self, line, c, oid) ==
    LET line_parts == split(replace(line, ","))
        has(k) == k + 1 <= Len(line_parts)
        at(k) == line_parts[k + 1]
        half == Instruction(oid, int(at(c.index)), 0, <<>>, <<>>)
        early == [self EXCEPT !.index_map = DictSet(self.index_map, half.index, half)]
    IN  IF ~has(c.index) THEN raises("IndexError", self)
        ELSE IF ~int_ok(at(c.index)) THEN raises("ValueError", self)
        ELSE IF ~has(c.id) THEN raises("IndexError", early)
        ELSE IF ~int_ok(at(c.id)) THEN raises("ValueError", early)
        ELSE IF ~has(c.char) THEN raises("IndexError", early)
        ELSE IF ~has(c.name) THEN raises("IndexError", early)
        ELSE LET inst == Instruction(oid, int(at(c.index)), int(at(c.id)),
                                     at(c.char), at(c.name))
             IN  [exc |-> "none", self |-> insert(self, inst), echo |-> <<inst>>]

load_line(self, line, c, oid) ==
    LET line_parts == split(replace(line, ","))
        has(k) == k + 1 <= Len(line_parts)
        at(k) == line_parts[k + 1]
    IN  IF ~has(c.index) THEN raises("IndexError", self)
        ELSE IF ~int_ok(at(c.index)) THEN raises("ValueError", self)
        ELSE IF ~has(c.id) THEN raises("IndexError", self)
        ELSE IF ~int_ok(at(c.id)) THEN raises("ValueError", self)
        ELSE IF ~has(c.char) THEN raises("IndexError", self)
        ELSE IF ~has(c.name) THEN raises("IndexError", self)
        ELSE LET inst == Instruction(oid, int(at(c.index)), int(at(c.id)),
                                     at(c.char), at(c.name))
             IN  [exc |-> "none", self |-> insert(self, inst), echo |-> <<inst>>]

----------------------------------------------------------------------------
(* The converters *)

\* throw_error(error_str): print the message and quit(); the call never
\* returns to its caller
throw_error(prefix, what) ==
    [status |-> "exit", value |-> <<>>, stdout |-> <<prefix, what>>]

returned(v) == [status |-> "returned", value |-> v, stdout |-> <<>>]

\* convert_chars_to_names with names joined by newlines instead of each being
\* followed by one
RECURSIVE chars_to_names_joined(_, _, _, _)
chars_to_names_joined(cmap, s, i, output_str) ==
    IF i > Len(s) THEN returned(output_str)
    ELSE IF <<s[i]>> \notin DOMAIN cmap
         THEN throw_error("Unknown symbol: ", <<s[i]>>)
         ELSE chars_to_names_joined(cmap, s, i + 1,
                output_str \o (IF i > 1 THEN <<NL>> ELSE <<>>) \o cmap[<<s[i]>>].name)

\* convert_chars_to_names with throw_error only printing: the unknown symbol
\* is passed over and the loop goes on
RECURSIVE chars_to_names_no_quit(_, _, _, _)
chars_to_names_no_quit(cmap, s, i, output_str) ==
    IF i > Len(s) THEN returned(output_str)
    ELSE IF <<s[i]>> \notin DOMAIN cmap
         THEN chars_to_names_no_quit(cmap, s, i + 1, output_str)
         ELSE chars_to_names_no_quit(cmap, s, i + 1,
                                     output_str \o cmap[<<s[i]>>].name \o <<NL>>)

\* convert_chars_to_names: the loop `for c in s` from position i on
RECURSIVE chars_to_names_loop(_, _, _, _)
chars_to_names_loop(cmap, s, i, output_str) ==
    IF i > Len(s) THEN returned(output_str)
    ELSE IF <<s[i]>> \notin DOMAIN cmap
         THEN throw_error("Unknown symbol: ", <<s[i]>>)
         ELSE chars_to_names_loop(cmap, s, i + 1,
                                  output_str \o cmap[<<s[i]>>].name \o <<NL>>)

convert_chars_to_names(cmap, s) == chars_to_names_loop(cmap, s, 1, <<>>)

\* convert_names_to_chars with each char put in front of the output
RECURSIVE names_to_chars_prepend(_, _, _, _)
names_to_chars_prepend(nmap, name_list, i, output_str) ==
    IF i > Len(name_list) THEN returned(output_str)
    ELSE LET s == strip(name_list[i]) IN
         IF Len(s) = 0
         THEN names_to_chars_prepend(nmap, name_list, i + 1, output_str)
         ELSE IF s \notin DOMAIN nmap
              THEN throw_error("Unknown name: ", s)
              ELSE names_to_chars_prepend(nmap, name_list, i + 1,
                                          nmap[s].char \o output_str)

\* convert_names_to_chars without the test for an empty entry
RECURSIVE names_to_chars_no_skip(_, _, _, _)
names_to_chars_no_skip(nmap, name_list, i, output_str) ==
    IF i > Len(name_list) THEN returned(output_str)
    ELSE LET s == strip(name_list[i]) IN
         IF s \notin DOMAIN nmap
         THEN throw_error("Unknown name: ", s)
         ELSE names_to_chars_no_skip(nmap, name_list, i + 1,
                                     output_str \o nmap[s].char)

\* convert_names_to_chars passing over an unknown name like a blank entry
RECURSIVE names_to_chars_lenient(_, _, _, _)
names_to_chars_lenient(nmap, name_list, i, output_str) ==
    IF i > Len(name_list) THEN returned(output_str)
    ELSE LET s == strip(name_list[i]) IN
         IF Len(s) = 0 \/ s \notin DOMAIN nmap
         THEN names_to_chars_lenient(nmap, name_list, i + 1, output_str)
         ELSE names_to_chars_lenient(nmap, name_list, i + 1,
                                     output_str \o nmap[s].char)

\* convert_names_to_chars: the loop `for s in name_list` from position i on
RECURSIVE names_to_chars_loop(_, _, _, _)
names_to_chars_loop(nmap, name_list, i, output_str) ==
    IF i > Len(name_list) THEN returned(output_str)
    ELSE LET s == strip(name_list[i]) IN
         IF Len(s) = 0
         THEN names_to_chars_loop(nmap, name_list, i + 1, output_str)
         ELSE IF s \notin DOMAIN nmap
              THEN throw_error("Unknown name: ", s)
              ELSE names_to_chars_loop(nmap, name_list, i + 1,
                                       output_str \o nmap[s].char)

convert_names_to_chars(nmap, name_list) == names_to_chars_loop(nmap, name_list, 1, <<>>)

\* write_to_file(filename, s): s[-1] raises IndexError on the empty string,
\* before the file is opened
write_to_file(s) ==
    IF Len(s) = 0
    THEN [status |-> "IndexError", value |-> <<>>, stdout |-> <<>>]
    ELSE IF s[Len(s)] # NL
         THEN returned(s \o <<NL>>)
         ELSE returned(s)

----------------------------------------------------------------------------
(* Inputs *)

SeqsUpTo(S, n) == UNION {[1..k -> S] : k \in 0..n}

nop_A == <<"n", "A">>
nop_B == <<"n", "B">>
nop_C == <<"n", "C">>

\* "id,name,char,index"
Line_header_commas ==
    Str_id \o <<",">> \o Str_name \o <<",">> \o Str_char \o <<",">> \o Str_index
\* "id, name, char, index"
Line_header_spaced ==
    Str_id \o <<",", " ">> \o Str_name \o <<",", " ">> \o Str_char
           \o <<",", " ">> \o Str_index
\* "0 0 a nA"
Line_a == <<"0", " ", "0", " ", "a", " ">> \o nop_A
\* "1, 1, b, nB"
Line_b == <<"1", ",", " ", "1", ",", " ", "b", ",", " ">> \o nop_B
\* "0 1 b nA": the index and name of Line_a, the id and char of Line_b
Line_dup == <<"0", " ", "1", " ", "b", " ">> \o nop_A
\* "7 nC c 3": a row in the order id, name, char, index
Line_reordered == <<"7", " ">> \o nop_C \o <<" ", "c", " ", "3">>
\* "2 z c nC": the id field is not an integer
Line_bad_id == <<"2", " ", "z", " ", "c", " ">> \o nop_C
\* "0a 1 b nB": starts with a digit, the first token is not a number
Line_0a == <<"0", "a", " ", "1", " ", "b", " ">> \o nop_B
\* "-1 2 c nC": a signed index, which int() accepts and isdigit() does not
Line_neg == <<"-", "1", " ", "2", " ", "c", " ">> \o nop_C
\* "": a blank line
Line_blank == <<>>

Lines ==
    {Line_header_commas, Line_header_spaced, Line_a, Line_b, Line_dup,
     Line_reordered, Line_bad_id, Line_0a, Line_neg, Line_blank}

Files == SeqsUpTo(Lines, MaxLines)

\* symbol strings: "x" is the char of no line
Symbols == {"a", "b", "x"}
SymbolStrings == SeqsUpTo(Symbols, MaxStrLen)

\* entries of a name list: blank, whitespace only, names with and without
\* surrounding whitespace, and a name of no line
Entries ==
    {<<>>, <<" ", "\t">>, nop_A, <<" ">> \o nop_B \o <<" ">>, <<"z">>}
NameLists == SeqsUpTo(Entries, MaxListLen)

----------------------------------------------------------------------------
(* The state machine *)

Self ==
    [index_map |-> index_map, id_map |-> id_map,
     char_map |-> char_map, name_map |-> name_map]

NoCall == [op |-> "none", arg |-> <<>>, src |-> <<>>,
           status |-> "none", value |-> <<>>, stdout |-> <<>>]

Call(op, arg, src, res) ==
    [op |-> op, arg |-> arg, src |-> src,
     status |-> res.status, value |-> res.value, stdout |-> res.stdout]

\* GenomeManipulator.__init__ up to the call of read_instruction_set_file
Init ==
    /\ file \in Files
    /\ pc = "start"
    /\ lineno = 1
    /\ cols = DefaultCols
    /\ index_map = NewTable.index_map
    /\ id_map = NewTable.id_map
    /\ char_map = NewTable.char_map
    /\ name_map = NewTable.name_map
    /\ loaded = <<>>
    /\ exc = "none"
    /\ call = NoCall

\* read_instruction_set_file, lines 70-100: the first line is read and
\* examined.  readline() at end of file gives '', and [][0] raises IndexError
ReadHeader ==
    /\ pc = "start"
    /\ LET line == IF Len(file) = 0 THEN <<>> ELSE file[1]
           line_parts == split(replace(line, ","))
       IN  IF Len(line_parts) = 0
           THEN /\ pc' = "raised"
                /\ exc' = "IndexError"
                /\ UNCHANGED <<lineno, cols>>
           ELSE /\ pc' = "loop"
                /\ cols' = header_cols(line_parts)
                /\ lineno' = first_data_line(line_parts)
                /\ UNCHANGED exc
    /\ UNCHANGED <<file, index_map, id_map, char_map, name_map, loaded, call>>

\* read_instruction_set_file, lines 102-114: one iteration of the data loop
ReadLine ==
    /\ pc = "loop"
    /\ lineno <= Len(file)
    /\ LET r == load_line(Self, file[lineno], cols, lineno) IN
        /\ index_map' = r.self.index_map
        /\ id_map' = r.self.id_map
        /\ char_map' = r.self.char_map
        /\ name_map' = r.self.name_map
        /\ loaded' = loaded \o r.echo
        /\ exc' = r.exc
        /\ IF r.exc = "none"
           THEN pc' = "loop" /\ lineno' = lineno + 1
           ELSE pc' = "raised" /\ UNCHANGED lineno
    /\ UNCHANGED <<file, cols, call>>

\* the data loop finds the end of the file: the load returns
EndOfFile ==
    /\ pc = "loop"
    /\ lineno > Len(file)
    /\ pc' = "done"
    /\ UNCHANGED <<file, lineno, cols, index_map, id_map, char_map, name_map, loaded, exc, call>>

\* manipulator.convert_chars_to_names(s), called when the result of the
\* previous call has been consumed
ConvertCharsToNames ==
    /\ pc = "done"
    /\ call = NoCall
    /\ \E s \in SymbolStrings :
         call' = Call("chars_to_names", s, <<>>, convert_chars_to_names(char_map, s))
    /\ UNCHANGED <<file, pc, lineno, cols, index_map, id_map, char_map, name_map, loaded, exc>>

\* manipulator.convert_names_to_chars(name_list)
ConvertNamesToChars ==
    /\ pc = "done"
    /\ call = NoCall
    /\ \E name_list \in NameLists :
         call' = Call("names_to_chars", name_list, <<>>,
                      convert_names_to_chars(name_map, name_list))
    /\ UNCHANGED <<file, pc, lineno, cols, index_map, id_map, char_map, name_map, loaded, exc>>

\* manipulator.convert_names_to_chars(r.split('\n')) for the string r that
\* the last convert_chars_to_names(s) returned; src remembers s
ConvertBack ==
    /\ pc = "done"
    /\ call.op = "chars_to_names"
    /\ call.status = "returned"
    /\ LET name_list == split_on(call.value, NL, 1, <<>>) IN
         call' = Call("convert_back", name_list, call.arg,
                      convert_names_to_chars(name_map, name_list))
    /\ UNCHANGED <<file, pc, lineno, cols, index_map, id_map, char_map, name_map, loaded, exc>>

\* write_to_file(filename, r) for the string r a converter returned, as in
\* __main__ (lines 148-149, 155); value is what the file then holds
WriteToFile ==
    /\ pc = "done"
    /\ call.op \in {"chars_to_names", "names_to_chars"}
    /\ call.status = "returned"
    /\ call' = Call("write_to_file", call.value, <<>>, write_to_file(call.value))
    /\ UNCHANGED <<file, pc, lineno, cols, index_map, id_map, char_map, name_map, loaded, exc>>

\* the caller is done with the result of the last call (a call that ended
\* in quit() ended the process: nothing follows it)
Continue ==
    /\ pc = "done"
    /\ call.status \in {"returned"}
    /\ call' = NoCall
    /\ UNCHANGED <<file, pc, lineno, cols, index_map, id_map, char_map, name_map, loaded, exc>>

Next ==
    \/ ReadHeader
    \/ ReadLine
    \/ EndOfFile
    \/ ConvertCharsToNames
    \/ ConvertNamesToChars
    \/ ConvertBack
    \/ WriteToFile
    \/ Continue

Spec == Init /\ [][Next]_vars

----------------------------------------------------------------------------
(* Properties of the converters *)

IsBlank(e) == \A i \in 1..Len(e) : e[i] \in Whitespace
ValidSymbols(s) == \A i \in 1..Len(s) : <<s[i]>> \in DOMAIN char_map
UnknownSymbolAt(s) == {i \in 1..Len(s) : <<s[i]>> \notin DOMAIN char_map}
UnknownNameAt(L) ==
    {i \in 1..Len(L) : ~IsBlank(L[i]) /\ strip(L[i]) \notin DOMAIN name_map}
Min(S) == CHOOSE m \in S : \A n \in S : m <= n
NonBlank(L) == SelectSeq(L, LAMBDA e : ~IsBlank(e))

\* the name of each symbol's record, each followed by a newline
RECURSIVE NamesOf(_)
NamesOf(s) ==
    IF s = <<>> THEN <<>>
    ELSE char_map[<<Head(s)>>].name \o <<NL>> \o NamesOf(Tail(s))

\* the chars of the records the entries name, in order
RECURSIVE CharsOf(_)
CharsOf(L) ==
    IF L = <<>> THEN <<>>
    ELSE name_map[strip(Head(L))].char \o CharsOf(Tail(L))

\* any two loaded rows with the same name have the same char
NamesDetermineChars ==
    \A i, j \in 1..Len(loaded) :
        loaded[i].name = loaded[j].name => loaded[i].char = loaded[j].char

\* C1 as stated: for every loaded table and every s over the keys of the char
\* mapping, convert_names_to_chars(convert_chars_to_names(s).split('\n'))
\* returns s
C1_RoundTripAnyTable ==
    (call.op = "convert_back" /\ ValidSymbols(call.src))
        => (call.status = "returned" /\ call.value = call.src)

\* C1 amended: the round trip returns s when the rows of the table that share
\* a name also share the char (in particular when the names are unique)
C1_RoundTrip ==
    (call.op = "convert_back" /\ ValidSymbols(call.src) /\ NamesDetermineChars)
        => (call.status = "returned" /\ call.value = call.src)

C1_Witness ==
    /\ call.op = "convert_back"
    /\ NamesDetermineChars
    /\ call.src = <<"b", "a", "b">>
    /\ call.arg = <<nop_B, nop_A, nop_B, <<>>>>
    /\ call.value = call.src

\* C2: for s over the keys of the char mapping, convert_chars_to_names(s)
\* returns the names of the characters' records in input order, each followed
\* by a newline (the empty string for the empty s)
C2_NamesPerLine ==
    (call.op = "chars_to_names" /\ ValidSymbols(call.arg))
        => (call.status = "returned" /\ call.value = NamesOf(call.arg))

C2_Witness ==
    /\ call.op = "chars_to_names"
    /\ call.arg = <<"a", "b">>
    /\ call.status = "returned"
    /\ call.value = nop_A \o <<NL>> \o nop_B \o <<NL>>

\* C3: on a list whose entries are blank or (trimmed) keys of the name
\* mapping, convert_names_to_chars returns what it returns on the list without
\* the blank entries: the chars of the non-blank entries, in order
C3_BlankSkipping ==
    (call.op = "names_to_chars" /\ UnknownNameAt(call.arg) = {})
        => /\ call.status = "returned"
           /\ call.value = convert_names_to_chars(name_map, NonBlank(call.arg)).value
           /\ call.value = CharsOf(NonBlank(call.arg))

C3_Witness ==
    /\ call.op = "names_to_chars"
    /\ call.arg = << <<" ", "\t">>, nop_A, <<>> >>
    /\ call.status = "returned"
    /\ call.value = <<"a">>

\* C4: when s holds a character that is no key of the char mapping,
\* convert_chars_to_names ends in the 'unknown symbol' error for the first
\* such character and returns no string; nothing follows the call
C4_UnknownSymbol ==
    (call.op = "chars_to_names" /\ UnknownSymbolAt(call.arg) # {})
        => /\ call.status = "exit"
           /\ call.stdout = <<"Unknown symbol: ", <<call.arg[Min(UnknownSymbolAt(call.arg))]>> >>
           /\ call.value = <<>>
           /\ ~ENABLED WriteToFile
           /\ ~ENABLED ConvertBack

C4_Witness ==
    /\ call.op = "chars_to_names"
    /\ call.arg = <<"a", "x", "b">>
    /\ ValidSymbols(<<"a", "b">>)
    /\ call.status = "exit"

\* C5: when the list holds an entry that is not blank and, trimmed, no key of
\* the name mapping, convert_names_to_chars ends in the 'unknown name' error
\* for the first such entry and returns no string; without such an entry the
\* call returns, whatever blank entries the list holds
C5_UnknownName ==
    call.op = "names_to_chars"
        => IF UnknownNameAt(call.arg) # {}
           THEN /\ call.status = "exit"
                /\ call.stdout = <<"Unknown name: ", strip(call.arg[Min(UnknownNameAt(call.arg))])>>
                /\ call.value = <<>>
                /\ ~ENABLED WriteToFile
           ELSE call.status = "returned"

C5_Witness ==
    /\ call.op = "names_to_chars"
    /\ call.arg = << <<>>, nop_A, <<"z">> >>
    /\ nop_A \in DOMAIN name_map
    /\ call.status = "exit"

----------------------------------------------------------------------------
(* Properties of the loader *)

Maps == <<index_map, id_map, char_map, name_map>>
Tokens(line) == split(replace(line, ","))
ObjectsOf(L) == {L[i] : i \in 1..Len(L)}
TableObjects == Values(index_map) \cup Values(id_map) \cup Values(char_map) \cup Values(name_map)

\* the object of line k under the order id, name, char, index
Reordered(k) ==
    LET f == Tokens(file[k]) IN Instruction(k, int(f[4]), int(f[1]), f[3], f[2])

\* the object of line k under the order index, id, char, name
InDefaultOrder(k) ==
    LET f == Tokens(file[k]) IN Instruction(k, int(f[1]), int(f[2]), f[3], f[4])

\* C6 as stated: after the header line `id,name,char,index` the fields of a
\* row are taken in the order id, name, char, index
C6_HeaderCommasOnly ==
    (Len(file) > 0 /\ file[1] = Line_header_commas /\ pc \in {"loop", "done"})
        => /\ cols = [id |-> 0, name |-> 1, char |-> 2, index |-> 3]
           /\ \A i \in 1..Len(loaded) : loaded[i] = Reordered(loaded[i].oid)

\* C6 amended: after a header line whose tokens (commas removed, split on
\* whitespace) are id name char index, e.g. `id, name, char, index`, field 0 of
\* every row is the id, field 1 the name, field 2 the char and field 3 the index
C6_HeaderReordering ==
    (Len(file) > 0 /\ Tokens(file[1]) = <<Str_id, Str_name, Str_char, Str_index>>
        /\ pc \in {"loop", "done"})
        => /\ cols = [id |-> 0, name |-> 1, char |-> 2, index |-> 3]
           /\ \A i \in 1..Len(loaded) :
                /\ loaded[i] = Reordered(loaded[i].oid)
                /\ loaded[i].oid = i + 1
           /\ pc = "done" =>
                /\ Len(loaded) = Len(file) - 1
                /\ TableObjects \subseteq ObjectsOf(loaded)
                /\ loaded # <<>> => loaded[Len(loaded)] \in TableObjects

C6_Witness ==
    /\ pc = "done"
    /\ file = <<Line_header_spaced, Line_reordered>>
    /\ index_map = (3 :> Instruction(2, 3, 7, <<"c">>, nop_C))
    /\ name_map = (nop_C :> Instruction(2, 3, 7, <<"c">>, nop_C))

\* the index, id, char and name values are each pairwise distinct over L
DistinctKeys(L) ==
    \A i, j \in 1..Len(L) :
        i # j => /\ L[i].index # L[j].index
                 /\ L[i].id # L[j].id
                 /\ L[i].char # L[j].char
                 /\ L[i].name # L[j].name

FirstTokenNumeric ==
    /\ Len(file) > 0
    /\ Tokens(file[1]) # <<>>
    /\ isdigit(Tokens(file[1])[1])

\* C7 as stated: a file whose first line starts with a digit is loaded in the
\* default column order, first line included, and the table holds one record
\* per line
C7_StartsWithDigit ==
    (pc = "done" /\ Len(file) > 0 /\ file[1] # <<>> /\ file[1][1] \in Digits)
        => /\ cols = DefaultCols
           /\ Len(loaded) = Len(file)
           /\ Cardinality(TableObjects) = Len(file)

\* C7 amended: when the first token of the first line (commas removed) is all
\* digits, the default column order is used and the data loop starts at the
\* first line (row 0 is not skipped): one object is constructed per line read,
\* line 1 first, the keys of line 1 are keys of the four mappings, and when the
\* rows' index, id, char and name values are pairwise distinct every mapping
\* holds exactly one record per line of the file
C7_HeaderDetection ==
    (FirstTokenNumeric /\ pc \in {"loop", "done", "raised"})
        => /\ cols = DefaultCols
           /\ lineno = Len(loaded) + 1
           /\ \A i \in 1..Len(loaded) : loaded[i] = InDefaultOrder(i)
           /\ pc = "done" =>
                /\ Len(loaded) = Len(file)
                /\ InDefaultOrder(1).index \in DOMAIN index_map
                /\ InDefaultOrder(1).id \in DOMAIN id_map
                /\ InDefaultOrder(1).char \in DOMAIN char_map
                /\ InDefaultOrder(1).name \in DOMAIN name_map
                /\ DistinctKeys(loaded) =>
                     \A m \in 1..4 :
                        /\ Values(Maps[m]) = ObjectsOf(loaded)
                        /\ Cardinality(DOMAIN Maps[m]) = Len(file)

C7_Witness ==
    /\ pc = "done"
    /\ file = <<Line_a, Line_b>>
    /\ loaded = <<Instruction(1, 0, 0, <<"a">>, nop_A), Instruction(2, 1, 1, <<"b">>, nop_B)>>
    /\ char_map = (<<"a">> :> loaded[1]) @@ (<<"b">> :> loaded[2])

\* loaded object x is the value of exactly one key of dict d
InOneSlot(d, x) == Cardinality({k \in DOMAIN d : d[k] = x}) = 1

SameRecordsInAllMaps ==
    /\ \A i \in 1..Len(loaded) : \A m \in 1..4 : InOneSlot(Maps[m], loaded[i])
    /\ \A m \in 1..4 :
        /\ Values(Maps[m]) = Values(index_map)
        /\ Cardinality(DOMAIN Maps[m]) = Cardinality(DOMAIN index_map)

\* C8 as stated: after the load of any table file every loaded record is the
\* value of exactly one key in each of the four mappings, which hold the same
\* records and have the same size
C8_AnyTableFile == pc = "done" => SameRecordsInAllMaps

\* C8 amended: the same, for a table file whose rows have pairwise distinct
\* index, id, char and name values; each mapping then has one entry per row
C8_TableInvariant ==
    (pc = "done" /\ DistinctKeys(loaded))
        => /\ SameRecordsInAllMaps
           /\ Cardinality(DOMAIN index_map) = Len(loaded)

C8_Witness ==
    /\ pc = "done"
    /\ file = <<Line_b, Line_neg, Line_a>>
    /\ Len(loaded) = 3
    /\ DistinctKeys(loaded)
    /\ DOMAIN index_map = {-1, 0, 1}
    /\ index_map[-1].oid = 2

\* C9: write_to_file succeeds for every string: it writes s unchanged when s
\* ends with a newline and s followed by one newline otherwise, the empty
\* string included
C9_WriteAnyString ==
    call.op = "write_to_file"
        => /\ call.status = "returned"
           /\ call.value = IF call.arg # <<>> /\ call.arg[Len(call.arg)] = NL
                           THEN call.arg
                           ELSE call.arg \o <<NL>>

\* the line the data loop reads next has an index field that is no integer,
\* or an integer index and an id field that is no integer
BadInteger ==
    LET f == Tokens(file[lineno])
        has(k) == k + 1 <= Len(f)
    IN  /\ has(cols.index)
        /\ \/ ~int_ok(f[cols.index + 1])
           \/ has(cols.id) /\ ~int_ok(f[cols.id + 1])

\* C10: a data line whose index or id field is not an integer makes the load
\* fail with a parse error at that line; the step inserts nothing into any of
\* the four mappings (no record of that line is in them) and the records of
\* the lines before it stay
C10_MalformedLine ==
    [][(pc = "loop" /\ lineno <= Len(file) /\ BadInteger)
        => /\ pc' = "raised"
           /\ exc' = "ValueError"
           /\ lineno' = lineno
           /\ Maps' = Maps
           /\ loaded' = loaded
           /\ \A x \in TableObjects' : x.oid # lineno
           /\ ObjectsOf(loaded) \cap TableObjects \subseteq TableObjects']_vars

C10_Witness ==
    /\ pc = "raised"
    /\ exc = "ValueError"
    /\ file = <<Line_a, Line_b, Line_bad_id>>
    /\ lineno = 3
    /\ Values(index_map) = {Instruction(1, 0, 0, <<"a">>, nop_A), Instruction(2, 1, 1, <<"b">>, nop_B)}
    /\ Values(id_map) = Values(index_map)

====
